---------------------------- MODULE Spec2Model ----------------------------
(***************************************************************************)
(* EveLastLoss: the report of the time since a character's last ship loss  *)
(* (eve_last_loss.py) and the OAuth callback listener (get_token.py).      *)
(*                                                                         *)
(* Python values that the code converts or compares across types are       *)
(* tagged records: [t |-> "int", v |-> 12] is the integer 12 and           *)
(* [t |-> "str", v |-> <<1, 2>>] the string "12" (its decimal digits).     *)
(* A killmail_time string "2023-01-DDTHH:MM:SS+TZ:00" is the record of its *)
(* fields; an instant is a number of seconds since 2023-01-01T00:00:00Z.   *)
(***************************************************************************)
EXTENDS Integers, Sequences, FiniteSets, TLC

VARIABLES
    esi,               \* what the ESI server and the clock answer in this world
    argv,              \* argv[a]: the character id given to the constructor of a
    api,               \* api[a]: the fields of EveOnlineAPI object a
    pc,                \* pc[a]: where a's get_time_since_last_ship_loss is
    killmails,         \* local of get_time_since_last_ship_loss
    idx,               \* position of the for loop of filter_character_losses
    losses,            \* local of filter_character_losses / the report
    most_recent_loss,  \* local of get_time_since_last_ship_loss
    time_diff,         \* local of get_time_since_last_ship_loss
    result,            \* local of get_time_since_last_ship_loss ("" = unset)
    report,            \* the returned string ("" = not returned yet)
    requests,          \* requests[a]: the GET requests a issued, in order
    trace,             \* trace[a]: the states a's run went through, in order
    sel_losses,        \* selector harness: the argument of find_most_recent_loss
    sel_out,           \* selector harness: what it returned
    sel_pc,
    fmt_in,            \* formatter harness: <<days, hours, minutes, seconds>>
    fmt_delta,         \* formatter harness: the timedelta built from fmt_in
    fmt_out,           \* formatter harness: what format_time_difference returned
    fmt_pc,
    authorization_code, \* httpd.authorization_code ("" = None)
    handled,           \* the requests the listener handled, in order
    written,           \* the bodies do_GET wrote, in order
    tok_pc             \* where get_access_token is

reportVars == <<esi, argv, api, pc, killmails, idx, losses, most_recent_loss,
                time_diff, result, report, requests, trace>>
selVars == <<sel_losses, sel_out, sel_pc>>
fmtVars == <<fmt_in, fmt_delta, fmt_out, fmt_pc>>
tokVars == <<authorization_code, handled, written, tok_pc>>
vars == <<reportVars, selVars, fmtVars, tokVars>>

-----------------------------------------------------------------------------
(* Bounds *)

\* longest list of summaries the recent-killmails endpoint answers with
MaxKills == 2
\* longest argument of find_most_recent_loss in the selector harness
MaxLosses == 3
\* most days of a time delta in the formatter harness
MaxDays == 2
\* most requests the callback listener is sent
MaxRequests == 3

None == [py_none |-> TRUE]

-----------------------------------------------------------------------------
(* Python conversions *)

RECURSIVE DigitsToInt(_)
DigitsToInt(ds) ==
    IF ds = <<>> THEN 0
    ELSE 10 * DigitsToInt(SubSeq(ds, 1, Len(ds) - 1)) + ds[Len(ds)]

RECURSIVE DigitsToString(_)
DigitsToString(ds) ==
    IF ds = <<>> THEN "" ELSE ToString(Head(ds)) \o DigitsToString(Tail(ds))

\* int(x)
PyInt(x) == IF x.t = "str" THEN [t |-> "int", v |-> DigitsToInt(x.v)] ELSE x

\* f"{x}"
PyStr(x) == IF x.t = "str" THEN DigitsToString(x.v) ELSE ToString(x.v)

\* x == y: values of different types are never equal
PyEq(x, y) == x.t = y.t /\ x.v = y.v

\* dateutil's parser.parse of a killmail_time, as an instant
ParseTime(s) == (((s.day - 1) * 24 + s.hh - s.tz) * 60 + s.mm) * 60 + s.ss

\* datetime - datetime: a normalized timedelta
TimeDelta(later, earlier) ==
    [days |-> (later - earlier) \div 86400, seconds |-> (later - earlier) % 86400]

-----------------------------------------------------------------------------
(* The ESI server *)

BASE_URL == "https://esi.evetech.net/latest"

T1 == [day |-> 1, hh |-> 12, mm |-> 0, ss |-> 0, tz |-> 0]
T2 == [day |-> 1, hh |-> 13, mm |-> 30, ss |-> 0, tz |-> 2]
T3 == [day |-> 2, hh |-> 12, mm |-> 0, ss |-> 0, tz |-> 0]
TimeStrings == {T1, T2, T3}

NowValues ==
    { ParseTime([day |-> 3, hh |-> 13, mm |-> 1, ss |-> 1, tz |-> 0]),
      ParseTime([day |-> 2, hh |-> 12, mm |-> 0, ss |-> 5, tz |-> 0]) }

ShipTypes == {587, 597}
TypeName(id) == IF id = 587 THEN "Rifter" ELSE "Punisher"

Victims ==
    [character_id : {12}, ship_type_id : ShipTypes] \cup [character_id : {12}]

Details ==
    [killmail_time : TimeStrings, victim : Victims]
    \cup { [killmail_time |-> T1, victim |-> [character_id |-> 7, ship_type_id |-> 587]],
           [killmail_time |-> T3, victim |-> [character_id |-> 7]],
           [killmail_time |-> T3, victim |-> [ship_type_id |-> 597]] }

DetailResponses == {[ok |-> FALSE]} \cup [ok : {TRUE}, body : Details]

SeqsUpTo(S, n) == UNION { [1..k -> S] : k \in 0..n }

Worlds ==
    [recent : {TRUE}, details : SeqsUpTo(DetailResponses, MaxKills),
     ship : {"fail", "noname", "ok"}, now : NowValues]
    \cup [recent : {FALSE}, details : {<<>>}, ship : {"fail"}, now : NowValues]

Summary(i) == [killmail_id |-> 100 + i, killmail_hash |-> "h" \o ToString(i)]

RecentPath(cid) == "/characters/" \o cid \o "/killmails/recent/"
KillmailPath(kill) ==
    "/killmails/" \o ToString(kill.killmail_id) \o "/" \o kill.killmail_hash \o "/"
TypePath(id) == "/universe/types/" \o ToString(id) \o "/"

TransportError(endpoint) == "404 Client Error for url: " \o BASE_URL \o endpoint

\* requests.get + raise_for_status + json() in world w
EsiRecent(w, cid) ==
    IF w.recent
    THEN [ok |-> TRUE, body |-> [i \in 1..Len(w.details) |-> Summary(i)]]
    ELSE [ok |-> FALSE]
EsiKillmail(w, kill) == w.details[kill.killmail_id - 100]
EsiType(w, id) ==
    CASE w.ship = "ok" -> [ok |-> TRUE, body |-> [name |-> TypeName(id), type_id |-> id]]
      [] w.ship = "noname" -> [ok |-> TRUE, body |-> [type_id |-> id]]
      [] OTHER -> [ok |-> FALSE]

-----------------------------------------------------------------------------
(* EveOnlineAPI *)

Apis == {1, 2}
CharacterArgs ==
    { <<[t |-> "str", v |-> <<1, 2>>], [t |-> "int", v |-> 12]>>,
      <<[t |-> "str", v |-> <<0, 7>>], [t |-> "int", v |-> 7]>> }

\* the constructor without the int() of line 15
EveOnlineAPIKeepsArgument(access_token, character_id) ==
    [access_token |-> access_token,
     character_id |-> character_id,
     headers |-> [Authorization |-> "Bearer " \o access_token,
                  ContentType |-> "application/json"]]

\* __init__
EveOnlineAPI(access_token, character_id) ==
    [access_token |-> access_token,
     character_id |-> PyInt(character_id),
     headers |-> [Authorization |-> "Bearer " \o access_token,
                  ContentType |-> "application/json"]]

\* _make_request: the response's JSON, or the exception it raises
MakeRequest(endpoint, response) ==
    IF response.ok
    THEN [raised |-> FALSE, value |-> response.body]
    ELSE [raised |-> TRUE,
          msg |-> "Error accessing EVE Online API: " \o TransportError(endpoint)]

Logged(kind, endpoint, response) ==
    [kind |-> kind, endpoint |-> endpoint, ok |-> response.ok]

\* the except clause of line 114 without str(e)
UnexpectedErrorWithoutMessage(msg) == "An unexpected error occurred"

\* except Exception as e: return f"An unexpected error occurred: {str(e)}"
UnexpectedError(msg) == "An unexpected error occurred: " \o msg

NoLossesReport == "No ship losses found for this character."

\* the comparison of line 54 left out: every fetched detail is kept
IsCharacterLossAlways(kill_detail, character_id) == TRUE

\* kill_detail['victim']['character_id'] == self.character_id
IsCharacterLoss(kill_detail, character_id) ==
    PyEq([t |-> "int", v |-> kill_detail.victim.character_id], character_id)

\* the loop body of filter_character_losses with a failed fetch skipped
FilterIterationSkipsFailures(ls, r, character_id) ==
    IF r.raised THEN [raised |-> FALSE, losses |-> ls]
    ELSE IF "character_id" \notin DOMAIN r.value.victim
         THEN [raised |-> TRUE, msg |-> "'character_id'"]
         ELSE [raised |-> FALSE,
               losses |-> IF IsCharacterLoss(r.value, character_id)
                          THEN Append(ls, r.value) ELSE ls]

\* the loop body of filter_character_losses reading the victim's id with
\* .get('character_id'): a victim without one is skipped like another's loss
FilterIterationSkipsNamelessVictim(ls, r, character_id) ==
    IF r.raised THEN r
    ELSE IF "character_id" \notin DOMAIN r.value.victim
         THEN [raised |-> FALSE, losses |-> ls]
         ELSE [raised |-> FALSE,
               losses |-> IF IsCharacterLoss(r.value, character_id)
                          THEN Append(ls, r.value) ELSE ls]

\* the loop body of filter_character_losses on the outcome r of the detail
\* request: the exception it lets through, or the losses after it
FilterIteration(ls, r, character_id) ==
    IF r.raised THEN r
    ELSE IF "character_id" \notin DOMAIN r.value.victim
         THEN [raised |-> TRUE, msg |-> "'character_id'"]
         ELSE [raised |-> FALSE,
               losses |-> IF IsCharacterLoss(r.value, character_id)
                          THEN Append(ls, r.value) ELSE ls]

\* if not losses: always on to the selector
AfterFilterAlwaysSelects(ls) == "SELECT_RECENT"

\* if not losses: return ... else go on
AfterFilter(ls) == IF ls = <<>> THEN "NO_LOSSES" ELSE "SELECT_RECENT"

\* the ship-info step with the inner try/except left out: the failure
\* reaches the except clause of line 114
EnrichShipNamePropagates(res, r) ==
    IF r.raised THEN [pc |-> "ERROR", result |-> res, report |-> UnexpectedError(r.msg)]
    ELSE IF "name" \notin DOMAIN r.value
         THEN [pc |-> "ERROR", result |-> res, report |-> UnexpectedError("'name'")]
         ELSE [pc |-> "DONE", result |-> res \o "\nLost ship: " \o r.value.name,
               report |-> res \o "\nLost ship: " \o r.value.name]

\* try: ship_info = ...; result += f"\nLost ship: {ship_info['name']}"
\* except Exception: pass; return result
EnrichedShipName(res, r) ==
    IF r.raised \/ "name" \notin DOMAIN r.value
    THEN [pc |-> "DONE", result |-> res, report |-> res]
    ELSE [pc |-> "DONE", result |-> res \o "\nLost ship: " \o r.value.name,
          report |-> res \o "\nLost ship: " \o r.value.name]

Terminal == {"DONE", "NO_LOSSES", "ERROR"}

\* the process is single-threaded: the second object runs after the first returned
Turn(a) == a = 1 \/ pc[1] \in Terminal

\* the key of max() in find_most_recent_loss compared as the raw string
LossKeyUnparsed(x) ==
    (((x.killmail_time.day - 1) * 24 + x.killmail_time.hh) * 60
        + x.killmail_time.mm) * 60 + x.killmail_time.ss

\* lambda x: parser.parse(x['killmail_time'])
LossKey(x) == ParseTime(x.killmail_time)

\* max(losses, key=...): the first element whose key no other exceeds
RECURSIVE MaxFrom(_, _, _)
MaxFrom(ls, i, best) ==
    IF i > Len(ls) THEN best
    ELSE MaxFrom(ls, i + 1, IF LossKey(ls[i]) > LossKey(best) THEN ls[i] ELSE best)

\* the first loss returned instead of the latest
find_first_loss(ls) == IF ls = <<>> THEN None ELSE ls[1]

find_most_recent_loss(ls) ==
    IF ls = <<>> THEN None ELSE MaxFrom(ls, 2, ls[1])

\* the plural guard written as n > 1
PluralAboveOne(n) == IF n > 1 THEN "s" ELSE ""

\* 's' if n != 1 else ''
Plural(n) == IF n /= 1 THEN "s" ELSE ""

format_time_difference(td) ==
    LET days == td.days
        hours == td.seconds \div 3600
        remainder == td.seconds % 3600
        minutes == remainder \div 60
        seconds == remainder % 60
        r0 == "Time since last ship loss: "
        r1 == IF days > 0
              THEN r0 \o ToString(days) \o " day" \o Plural(days) \o ", " ELSE r0
        r2 == IF hours > 0
              THEN r1 \o ToString(hours) \o " hour" \o Plural(hours) \o ", " ELSE r1
        r3 == IF minutes > 0
              THEN r2 \o ToString(minutes) \o " minute" \o Plural(minutes) \o ", " ELSE r2
    IN r3 \o ToString(seconds) \o " second" \o Plural(seconds)

-----------------------------------------------------------------------------
(* get_time_since_last_ship_loss, one action per request or step *)

\* killmails = self.get_recent_killmails()
GetRecentKillmails(a) ==
    /\ Turn(a)
    /\ pc[a] = "FETCH_KILLMAILS"
    /\ LET endpoint == RecentPath(PyStr(api[a].character_id))
           response == EsiRecent(esi, PyStr(api[a].character_id))
           r == MakeRequest(endpoint, response)
       IN /\ requests' =
                [requests EXCEPT ![a] = Append(@, Logged("recent", endpoint, response))]
          /\ IF r.raised
             THEN /\ report' = [report EXCEPT ![a] = UnexpectedError(r.msg)]
                  /\ pc' = [pc EXCEPT ![a] = "ERROR"]
                  /\ trace' = [trace EXCEPT ![a] = Append(@, "ERROR")]
                  /\ UNCHANGED killmails
             ELSE /\ killmails' = [killmails EXCEPT ![a] = r.value]
                  /\ pc' = [pc EXCEPT ![a] = "FILTER_LOSSES"]
                  /\ trace' = [trace EXCEPT ![a] = Append(@, "FILTER_LOSSES")]
                  /\ UNCHANGED report
    /\ UNCHANGED <<esi, argv, api, idx, losses, most_recent_loss, time_diff, result>>
    /\ UNCHANGED <<selVars, fmtVars, tokVars>>

\* one iteration of the for loop of filter_character_losses
FilterCharacterLoss(a) ==
    /\ Turn(a)
    /\ pc[a] = "FILTER_LOSSES"
    /\ idx[a] <= Len(killmails[a])
    /\ LET kill == killmails[a][idx[a]]
           endpoint == KillmailPath(kill)
           response == EsiKillmail(esi, kill)
           r == FilterIteration(losses[a], MakeRequest(endpoint, response),
                                api[a].character_id)
       IN /\ requests' =
                [requests EXCEPT ![a] = Append(@, Logged("killmail", endpoint, response))]
          /\ IF r.raised
             THEN /\ report' = [report EXCEPT ![a] = UnexpectedError(r.msg)]
                  /\ pc' = [pc EXCEPT ![a] = "ERROR"]
                  /\ trace' = [trace EXCEPT ![a] = Append(@, "ERROR")]
                  /\ UNCHANGED <<idx, losses>>
             ELSE /\ losses' = [losses EXCEPT ![a] = r.losses]
                  /\ idx' = [idx EXCEPT ![a] = @ + 1]
                  /\ UNCHANGED <<report, pc, trace>>
    /\ UNCHANGED <<esi, argv, api, killmails, most_recent_loss, time_diff, result>>
    /\ UNCHANGED <<selVars, fmtVars, tokVars>>

\* return losses; if not losses: return "No ship losses found for this character."
FilterReturns(a) ==
    /\ Turn(a)
    /\ pc[a] = "FILTER_LOSSES"
    /\ idx[a] > Len(killmails[a])
    /\ pc' = [pc EXCEPT ![a] = AfterFilter(losses[a])]
    /\ trace' = [trace EXCEPT ![a] = Append(@, AfterFilter(losses[a]))]
    /\ IF AfterFilter(losses[a]) = "NO_LOSSES"
       THEN report' = [report EXCEPT ![a] = NoLossesReport]
       ELSE UNCHANGED report
    /\ UNCHANGED <<esi, argv, api, killmails, idx, losses, most_recent_loss,
                   time_diff, result, requests>>
    /\ UNCHANGED <<selVars, fmtVars, tokVars>>

\* most_recent_loss = self.find_most_recent_loss(losses)
SelectRecent(a) ==
    /\ Turn(a)
    /\ pc[a] = "SELECT_RECENT"
    /\ most_recent_loss' = [most_recent_loss EXCEPT ![a] = find_most_recent_loss(losses[a])]
    /\ pc' = [pc EXCEPT ![a] = "FORMAT"]
    /\ trace' = [trace EXCEPT ![a] = Append(@, "FORMAT")]
    /\ UNCHANGED <<esi, argv, api, killmails, idx, losses, time_diff, result,
                   report, requests>>
    /\ UNCHANGED <<selVars, fmtVars, tokVars>>

\* loss_time, now, time_diff, result = self.format_time_difference(time_diff);
\* without a ship_type_id the result is returned at once;
\* None['killmail_time'] raises TypeError
Format(a) ==
    /\ Turn(a)
    /\ pc[a] = "FORMAT"
    /\ IF most_recent_loss[a] = None
       THEN /\ report' = [report EXCEPT ![a] =
                            UnexpectedError("'NoneType' object is not subscriptable")]
            /\ pc' = [pc EXCEPT ![a] = "ERROR"]
            /\ trace' = [trace EXCEPT ![a] = Append(@, "ERROR")]
            /\ UNCHANGED <<time_diff, result>>
       ELSE
       LET loss_time == ParseTime(most_recent_loss[a].killmail_time)
           td == TimeDelta(esi.now, loss_time)
       IN /\ time_diff' = [time_diff EXCEPT ![a] = td]
          /\ result' = [result EXCEPT ![a] = format_time_difference(td)]
          /\ IF "ship_type_id" \in DOMAIN most_recent_loss[a].victim
             THEN /\ pc' = [pc EXCEPT ![a] = "ENRICH_SHIP_NAME"]
                  /\ trace' = [trace EXCEPT ![a] = Append(@, "ENRICH_SHIP_NAME")]
                  /\ UNCHANGED report
             ELSE /\ pc' = [pc EXCEPT ![a] = "DONE"]
                  /\ trace' = [trace EXCEPT ![a] = Append(@, "DONE")]
                  /\ report' = [report EXCEPT ![a] = format_time_difference(td)]
    /\ UNCHANGED <<esi, argv, api, killmails, idx, losses, most_recent_loss, requests>>
    /\ UNCHANGED <<selVars, fmtVars, tokVars>>

\* ship_info = self.get_ship_info(ship_type_id); result += ...; except: pass
EnrichShipName(a) ==
    /\ Turn(a)
    /\ pc[a] = "ENRICH_SHIP_NAME"
    /\ LET ship_type_id == most_recent_loss[a].victim.ship_type_id
           endpoint == TypePath(ship_type_id)
           response == EsiType(esi, ship_type_id)
           out == EnrichedShipName(result[a], MakeRequest(endpoint, response))
       IN /\ requests' =
                [requests EXCEPT ![a] = Append(@, Logged("type", endpoint, response))]
          /\ result' = [result EXCEPT ![a] = out.result]
          /\ report' = [report EXCEPT ![a] = out.report]
          /\ pc' = [pc EXCEPT ![a] = out.pc]
          /\ trace' = [trace EXCEPT ![a] = Append(@, out.pc)]
    /\ UNCHANGED <<esi, argv, api, killmails, idx, losses, most_recent_loss, time_diff>>
    /\ UNCHANGED <<selVars, fmtVars, tokVars>>

SelIdle == sel_losses = <<>> /\ sel_out = None /\ sel_pc = "idle"
FmtIdle == fmt_in = <<0, 0, 0, 0>> /\ fmt_delta = None /\ fmt_out = "" /\ fmt_pc = "idle"
TokIdle == authorization_code = "" /\ handled = <<>> /\ written = <<>> /\ tok_pc = "idle"

ReportInit ==
    \E w \in Worlds, c \in CharacterArgs :
        /\ esi = w
        /\ argv = [a \in Apis |-> c[a]]
        /\ api = [a \in Apis |-> EveOnlineAPI("tok", c[a])]
        /\ pc = [a \in Apis |-> "FETCH_KILLMAILS"]
        /\ killmails = [a \in Apis |-> <<>>]
        /\ idx = [a \in Apis |-> 1]
        /\ losses = [a \in Apis |-> <<>>]
        /\ most_recent_loss = [a \in Apis |-> None]
        /\ time_diff = [a \in Apis |-> None]
        /\ result = [a \in Apis |-> ""]
        /\ report = [a \in Apis |-> ""]
        /\ requests = [a \in Apis |-> <<>>]
        /\ trace = [a \in Apis |-> <<"FETCH_KILLMAILS">>]

Init == ReportInit /\ SelIdle /\ FmtIdle /\ TokIdle

Next ==
    \E a \in Apis :
        \/ GetRecentKillmails(a)
        \/ FilterCharacterLoss(a)
        \/ FilterReturns(a)
        \/ SelectRecent(a)
        \/ Format(a)
        \/ EnrichShipName(a)

Spec == Init /\ [][Next]_vars

RunStep(a) ==
    \/ GetRecentKillmails(a)
    \/ FilterCharacterLoss(a)
    \/ FilterReturns(a)
    \/ SelectRecent(a)
    \/ Format(a)
    \/ EnrichShipName(a)

\* no report is running
ReportIdle ==
    /\ esi = [recent |-> FALSE, details |-> <<>>, ship |-> "fail", now |-> 0]
    /\ argv = [a \in Apis |-> [t |-> "int", v |-> 12]]
    /\ api = [a \in Apis |-> EveOnlineAPI("tok", [t |-> "int", v |-> 12])]
    /\ pc = [a \in Apis |-> "idle"]
    /\ killmails = [a \in Apis |-> <<>>]
    /\ idx = [a \in Apis |-> 1]
    /\ losses = [a \in Apis |-> <<>>]
    /\ most_recent_loss = [a \in Apis |-> None]
    /\ time_diff = [a \in Apis |-> None]
    /\ result = [a \in Apis |-> ""]
    /\ report = [a \in Apis |-> ""]
    /\ requests = [a \in Apis |-> <<>>]
    /\ trace = [a \in Apis |-> <<>>]

-----------------------------------------------------------------------------
(* find_most_recent_loss on its own *)

\* "2023-01-01T14:00:00+02:00": the instant of T1 written in another zone
T4 == [day |-> 1, hh |-> 14, mm |-> 0, ss |-> 0, tz |-> 2]

SelLosses == [killmail_time : TimeStrings \cup {T4}, victim : Victims]

SelInit ==
    /\ sel_losses \in SeqsUpTo(SelLosses, MaxLosses)
    /\ sel_out = None
    /\ sel_pc = "call"

FindMostRecentLoss ==
    /\ sel_pc = "call"
    /\ sel_out' = find_most_recent_loss(sel_losses)
    /\ sel_pc' = "returned"
    /\ UNCHANGED <<sel_losses, reportVars, fmtVars, tokVars>>

InitSelect == SelInit /\ ReportIdle /\ FmtIdle /\ TokIdle

SpecSelect == InitSelect /\ [][FindMostRecentLoss]_vars

-----------------------------------------------------------------------------
(* format_time_difference on its own *)

HourValues == {0, 1, 3, 23}
MinuteValues == {0, 1, 45, 59}
SecondValues == {0, 1, 5, 30, 59}

\* datetime.timedelta(days=d, hours=h, minutes=m, seconds=s), normalized
timedelta(d, h, m, s) ==
    [days |-> d + (h * 3600 + m * 60 + s) \div 86400,
     seconds |-> (h * 3600 + m * 60 + s) % 86400]

FmtInit ==
    /\ fmt_in \in (0..MaxDays) \X HourValues \X MinuteValues \X SecondValues
    /\ fmt_delta = None
    /\ fmt_out = ""
    /\ fmt_pc = "build"

BuildTimeDelta ==
    /\ fmt_pc = "build"
    /\ fmt_delta' = timedelta(fmt_in[1], fmt_in[2], fmt_in[3], fmt_in[4])
    /\ fmt_pc' = "call"
    /\ UNCHANGED <<fmt_in, fmt_out, reportVars, selVars, tokVars>>

FormatTimeDifference ==
    /\ fmt_pc = "call"
    /\ fmt_out' = format_time_difference(fmt_delta)
    /\ fmt_pc' = "returned"
    /\ UNCHANGED <<fmt_in, fmt_delta, reportVars, selVars, tokVars>>

FmtNext == BuildTimeDelta \/ FormatTimeDifference

InitFormat == FmtInit /\ ReportIdle /\ SelIdle /\ TokIdle

SpecFormat == InitFormat /\ [][FmtNext]_vars

-----------------------------------------------------------------------------
(* get_access_token: the callback listener *)

\* a request path is its pieces up to "?" and its query, a list of key=value
Routes == { <<"/callback">>, <<"/callback", "/again">>, <<"/favicon.ico">>, <<"/">> }
Queries ==
    { <<>>,
      << <<"code", "abc">> >>,
      << <<"code", "">> >>,
      << <<"state", "unique-state-string">> >>,
      << <<"state", "unique-state-string">>, <<"code", "def">> >>,
      << <<"code", "abc">>, <<"code", "def">> >> }
CallbackRequests == [route : Routes, query : Queries]

\* self.path.startswith('/callback')
StartsWithCallback(route) == route[1] = "/callback"

\* urllib.parse.parse_qs(query)[key]: the non-blank values of key, in order
ParseQs(query, key) ==
    LET kept == SelectSeq(query, LAMBDA kv : kv[1] = key /\ kv[2] /= "")
    IN [i \in 1..Len(kept) |-> kept[i][2]]

\* do_GET with the path test left out: a code is taken from any path
do_GET_AnyPath(code, req) ==
    IF ParseQs(req.query, "code") /= <<>>
    THEN [authorization_code |-> ParseQs(req.query, "code")[1],
          body |-> "Authorization successful! You can close this window now."]
    ELSE [authorization_code |-> code,
          body |-> "Authorization failed. Please try again."]

\* CallbackHandler.do_GET: the server's authorization_code and the body written
do_GET(code, req) ==
    IF StartsWithCallback(req.route)
    THEN IF ParseQs(req.query, "code") /= <<>>
         THEN [authorization_code |-> ParseQs(req.query, "code")[1],
               body |-> "Authorization successful! You can close this window now."]
         ELSE [authorization_code |-> code,
               body |-> "Authorization failed. Please try again."]
    ELSE [authorization_code |-> code, body |-> "Invalid callback path."]

\* httpd = TCPServer(...); httpd.authorization_code = None; the loop is entered
TokInit ==
    /\ authorization_code = ""
    /\ handled = <<>>
    /\ written = <<>>
    /\ tok_pc = "waiting"

\* while httpd.authorization_code is None: httpd.handle_request()
HandleRequest ==
    /\ tok_pc = "waiting"
    /\ authorization_code = ""
    /\ Len(handled) < MaxRequests
    /\ \E req \in CallbackRequests :
          LET out == do_GET(authorization_code, req)
          IN /\ authorization_code' = out.authorization_code
             /\ handled' = Append(handled, req)
             /\ written' = Append(written, out.body)
    /\ UNCHANGED <<tok_pc, reportVars, selVars, fmtVars>>

\* the loop condition is false: authorization_code = httpd.authorization_code
LeaveLoop ==
    /\ tok_pc = "waiting"
    /\ authorization_code /= ""
    /\ tok_pc' = "exchange"
    /\ UNCHANGED <<authorization_code, handled, written, reportVars, selVars, fmtVars>>

\* response = requests.post(token_url, ...)
ExchangeCode ==
    /\ tok_pc = "exchange"
    /\ \E status_code \in {200, 400} :
          tok_pc' = IF status_code = 200 THEN "token" ELSE "no_token"
    /\ UNCHANGED <<authorization_code, handled, written, reportVars, selVars, fmtVars>>

TokNext == HandleRequest \/ LeaveLoop \/ ExchangeCode

InitToken == TokInit /\ ReportIdle /\ SelIdle /\ FmtIdle

SpecToken == InitToken /\ [][TokNext]_vars

-----------------------------------------------------------------------------
(* What the world of a run makes of it, stated from the responses alone *)

Returned(a) == pc[a] \in Terminal
FilterDone(a) == pc[a] \in {"NO_LOSSES", "SELECT_RECENT", "FORMAT", "ENRICH_SHIP_NAME", "DONE"}

\* the number the constructor's argument denotes
ArgNumber(a) == IF argv[a].t = "str" THEN DigitsToInt(argv[a].v) ELSE argv[a].v

\* every fetch succeeds and every victim carries a character_id (data model)
AllWellFormed ==
    /\ esi.recent
    /\ \A i \in 1..Len(esi.details) :
          /\ esi.details[i].ok
          /\ "character_id" \in DOMAIN esi.details[i].body.victim

\* the details of the world whose victim is a's character, in list order
ExpectedLosses(a) ==
    LET bodies == [i \in 1..Len(esi.details) |-> esi.details[i].body]
        OfCharacter(d) == d.victim.character_id = ArgNumber(a)
    IN SelectSeq(bodies, OfCharacter)

\* the first loss of ls that no loss of ls is later than
LatestOf(ls) ==
    ls[CHOOSE i \in 1..Len(ls) :
          /\ \A j \in 1..Len(ls) :
                ParseTime(ls[j].killmail_time) <= ParseTime(ls[i].killmail_time)
          /\ \A j \in 1..(i - 1) :
                ParseTime(ls[j].killmail_time) < ParseTime(ls[i].killmail_time)]

ExpectedDuration(a) ==
    format_time_difference(
        TimeDelta(esi.now, ParseTime(LatestOf(ExpectedLosses(a)).killmail_time)))

TypeRequests(a) == SelectSeq(requests[a], LAMBDA q : q.kind = "type")

-----------------------------------------------------------------------------
(* Claims on the report *)

\* C1: a run whose recent-killmails request or any detail request failed is in
\* ERROR and its report is exactly "An unexpected error occurred: " followed by
\* the message of that failure; no duration was formatted, no ship requested.
C1_FetchFailureIsTheWholeReport ==
    \A a \in Apis : \A i \in 1..Len(requests[a]) :
        (requests[a][i].kind \in {"recent", "killmail"} /\ ~requests[a][i].ok)
        => /\ pc[a] = "ERROR"
           /\ report[a] = "An unexpected error occurred: "
                            \o "Error accessing EVE Online API: "
                            \o TransportError(requests[a][i].endpoint)
           /\ result[a] = ""
           /\ TypeRequests(a) = <<>>

\* a detail request failed after a loss of the character had been kept
C1_Witness ==
    \E a \in Apis :
        /\ pc[a] = "ERROR"
        /\ Len(requests[a]) = 3
        /\ ~requests[a][3].ok
        /\ losses[a] /= <<>>
        /\ report[a] = "An unexpected error occurred: Error accessing EVE Online API: "
                        \o "404 Client Error for url: "
                        \o "https://esi.evetech.net/latest/killmails/102/h2/"

\* C2: when the ship-type-info request fails or answers without a name, the
\* run ends DONE and the report is exactly the formatted duration of the
\* latest loss: no "Lost ship" line, no error string.
C2_ShipInfoFailureIsSuppressed ==
    \A a \in Apis :
        (/\ Returned(a)
         /\ TypeRequests(a) /= <<>>
         /\ (~TypeRequests(a)[1].ok \/ esi.ship = "noname"))
        => /\ pc[a] = "DONE"
           /\ report[a] = ExpectedDuration(a)

C2_Witness ==
    \E a \in Apis :
        /\ pc[a] = "DONE"
        /\ TypeRequests(a) /= <<>>
        /\ ~TypeRequests(a)[1].ok
        /\ report[a] = "Time since last ship loss: 5 seconds"

\* C4: when every fetch succeeds (and every victim carries a character_id),
\* the filter raises nothing and returns exactly the fetched details whose
\* victim is the queried character, in the order of their summaries.
C4_FilterKeepsExactlyTheLosses ==
    \A a \in Apis :
        AllWellFormed
        => /\ pc[a] /= "ERROR"
           /\ FilterDone(a) => losses[a] = ExpectedLosses(a)
           /\ pc[a] = "FILTER_LOSSES" => Len(losses[a]) <= idx[a] - 1

\* two summaries, the first another character's loss, the second kept
C4_Witness ==
    \E a \in Apis :
        /\ FilterDone(a)
        /\ Len(killmails[a]) = 2
        /\ esi.details[1].body.victim.character_id /= ArgNumber(a)
        /\ losses[a] = <<esi.details[2].body>>

\* C5: when every fetch succeeds and no fetched detail is a loss of the
\* character, the run goes FETCH_KILLMAILS, FILTER_LOSSES, NO_LOSSES: the
\* report is the literal, and selector, formatter and ship request never ran.
C5_NoLossesShortCircuits ==
    \A a \in Apis :
        (AllWellFormed /\ ExpectedLosses(a) = <<>>)
        => /\ \A k \in 1..Len(trace[a]) :
                 trace[a][k] \in {"FETCH_KILLMAILS", "FILTER_LOSSES", "NO_LOSSES"}
           /\ most_recent_loss[a] = None
           /\ time_diff[a] = None
           /\ result[a] = ""
           /\ TypeRequests(a) = <<>>
           /\ FilterDone(a) =>
                 /\ pc[a] = "NO_LOSSES"
                 /\ report[a] = "No ship losses found for this character."

\* a non-empty list of killmails none of which is a loss of the character
C5_Witness ==
    \E a \in Apis :
        /\ pc[a] = "NO_LOSSES"
        /\ Len(killmails[a]) = 2
        /\ Len(requests[a]) = 3
        /\ report[a] = "No ship losses found for this character."

\* C7: in a run whose fetches all succeeded with at least one loss, the ship
\* type requested is the ship_type_id of the latest loss; with a name in the
\* answer the report is the duration followed by "\nLost ship: <name>"; when
\* the latest loss has no ship_type_id nothing is requested or appended.
C7_ShipOfTheLatestLoss ==
    \A a \in Apis :
        (Returned(a) /\ AllWellFormed /\ ExpectedLosses(a) /= <<>>)
        => LET latest == LatestOf(ExpectedLosses(a))
           IN IF "ship_type_id" \in DOMAIN latest.victim
              THEN /\ Len(TypeRequests(a)) = 1
                   /\ TypeRequests(a)[1].endpoint =
                         "/universe/types/" \o ToString(latest.victim.ship_type_id) \o "/"
                   /\ esi.ship = "ok" =>
                         report[a] = ExpectedDuration(a) \o "\nLost ship: "
                                       \o TypeName(latest.victim.ship_type_id)
              ELSE /\ TypeRequests(a) = <<>>
                   /\ report[a] = ExpectedDuration(a)

\* two losses with different ships, the later one second in the list
C7_Witness ==
    \E a \in Apis :
        /\ pc[a] = "DONE"
        /\ Len(losses[a]) = 2
        /\ losses[a][1].killmail_time = T1
        /\ losses[a][2].killmail_time = T3
        /\ losses[a][1].victim = [character_id |-> 12, ship_type_id |-> 587]
        /\ losses[a][2].victim = [character_id |-> 12, ship_type_id |-> 597]
        /\ report[a] = "Time since last ship loss: 1 day, 1 hour, 1 minute, 1 second"
                        \o "\nLost ship: Punisher"

\* C8: both objects hold the integer their argument denotes, and on the same
\* responses the run of the one built from the string and the run of the one
\* built from the integer issue the same requests, keep the same losses and
\* return the same report.
C8_StringAndIntegerIdBehaveAlike ==
    /\ \A a \in Apis :
          /\ api[a].character_id.t = "int"
          /\ api[a].character_id.v = ArgNumber(a)
    /\ PyEq(api[1].character_id, api[2].character_id)
    /\ Len(requests[2]) <= Len(requests[1])
    /\ requests[2] = SubSeq(requests[1], 1, Len(requests[2]))
    /\ (Returned(1) /\ Returned(2))
       => /\ requests[1] = requests[2]
          /\ losses[1] = losses[2]
          /\ report[1] = report[2]
          /\ trace[1] = trace[2]

\* both runs returned a duration for the character given as "07" and as 7
C8_Witness ==
    /\ argv[1] = [t |-> "str", v |-> <<0, 7>>]
    /\ argv[2] = [t |-> "int", v |-> 7]
    /\ pc[1] = "DONE" /\ pc[2] = "DONE"
    /\ losses[2] /= <<>>
    /\ requests[2][1].endpoint = "/characters/7/killmails/recent/"
    /\ report[1] = report[2]

\* the transitions of the report's state machine
Edges ==
    { <<"FETCH_KILLMAILS", "FILTER_LOSSES">>, <<"FILTER_LOSSES", "NO_LOSSES">>,
      <<"FILTER_LOSSES", "SELECT_RECENT">>, <<"SELECT_RECENT", "FORMAT">>,
      <<"FORMAT", "ENRICH_SHIP_NAME">>, <<"FORMAT", "DONE">>,
      <<"ENRICH_SHIP_NAME", "DONE">> }
    \cup { <<st, "ERROR">> : st \in {"FETCH_KILLMAILS", "FILTER_LOSSES",
                                      "SELECT_RECENT", "FORMAT"} }

\* C9: a run goes through the states along the allowed transitions only; its
\* requests are the recent-killmails request, then the detail requests of the
\* summaries in list order, then at most one ship-type request, made only
\* after every detail request succeeded; no request is issued twice; a failed
\* recent or detail request is the last one and the run is in ERROR at once;
\* a run has a next step exactly until it is in DONE, NO_LOSSES or ERROR.
C9_OneRequestEachNoRetries ==
    \A a \in Apis :
        LET rq == requests[a]
            tr == trace[a]
        IN /\ tr[1] = "FETCH_KILLMAILS"
           /\ tr[Len(tr)] = pc[a]
           /\ \A k \in 1..(Len(tr) - 1) : <<tr[k], tr[k + 1]>> \in Edges
           /\ \A i \in 1..Len(rq) :
                 /\ rq[i].kind = "recent" <=> i = 1
                 /\ i = 1 => rq[i].endpoint =
                       "/characters/" \o ToString(ArgNumber(a)) \o "/killmails/recent/"
                 /\ rq[i].kind = "killmail" =>
                       /\ i - 1 \in 1..Len(killmails[a])
                       /\ rq[i].endpoint =
                             "/killmails/" \o ToString(killmails[a][i - 1].killmail_id)
                                \o "/" \o killmails[a][i - 1].killmail_hash \o "/"
                 /\ rq[i].kind = "type" =>
                       /\ i = Len(killmails[a]) + 2
                       /\ i = Len(rq)
                       /\ \A j \in 1..(i - 1) : rq[j].ok
                 /\ (rq[i].kind /= "type" /\ ~rq[i].ok) =>
                       /\ i = Len(rq)
                       /\ pc[a] = "ERROR"
                       /\ tr[Len(tr) - 1] \in {"FETCH_KILLMAILS", "FILTER_LOSSES"}
                 /\ \A j \in 1..Len(rq) : rq[j].endpoint = rq[i].endpoint => j = i
           /\ (Turn(a) /\ ~Returned(a)) => ENABLED RunStep(a)
           /\ Returned(a) => ~ENABLED RunStep(a)

\* a run that issued all four kinds of step: recent, two details, ship type
C9_Witness ==
    \E a \in Apis :
        /\ trace[a] = <<"FETCH_KILLMAILS", "FILTER_LOSSES", "SELECT_RECENT",
                        "FORMAT", "ENRICH_SHIP_NAME", "DONE">>
        /\ Len(requests[a]) = 4
        /\ requests[a][2].endpoint = "/killmails/101/h1/"
        /\ requests[a][3].endpoint = "/killmails/102/h2/"
        /\ requests[a][4].kind = "type"

\* C11: when the fetched detail of a summary has a victim without a
\* character_id, the filter raises on it: that request is the run's last (no
\* later summary is fetched, no ship type asked), the run is in ERROR and the
\* report is "An unexpected error occurred: 'character_id'", never a
\* duration, whatever losses were kept before or wait later in the list.
C11_VictimWithoutCharacterIdAborts ==
    \A a \in Apis : \A i \in 2..Len(requests[a]) :
        (/\ requests[a][i].kind = "killmail"
         /\ requests[a][i].ok
         /\ "character_id" \notin DOMAIN esi.details[i - 1].body.victim)
        => /\ i = Len(requests[a])
           /\ pc[a] = "ERROR"
           /\ trace[a] = <<"FETCH_KILLMAILS", "FILTER_LOSSES", "ERROR">>
           /\ report[a] = "An unexpected error occurred: 'character_id'"
           /\ result[a] = ""
           /\ most_recent_loss[a] = None

\* the first detail has no character_id, the second summary is a loss of the
\* queried character and is never fetched
C11_Witness ==
    \E a \in Apis :
        /\ pc[a] = "ERROR"
        /\ Len(killmails[a]) = 2
        /\ Len(requests[a]) = 2
        /\ requests[a][2].ok
        /\ "character_id" \notin DOMAIN esi.details[1].body.victim
        /\ esi.details[2].ok
        /\ "character_id" \in DOMAIN esi.details[2].body.victim
        /\ esi.details[2].body.victim.character_id = ArgNumber(a)
        /\ report[a] = "An unexpected error occurred: 'character_id'"

-----------------------------------------------------------------------------
(* Claims on the selector, the formatter and the listener *)

\* C3: find_most_recent_loss returns None for the empty sequence, and for a
\* non-empty one an element of it whose parsed killmail_time no element's
\* parsed killmail_time exceeds, whatever the order of the sequence.
C3_SelectorReturnsALatestLoss ==
    sel_pc = "returned" =>
        IF sel_losses = <<>> THEN sel_out = None
        ELSE /\ \E i \in 1..Len(sel_losses) : sel_out = sel_losses[i]
             /\ \A j \in 1..Len(sel_losses) :
                   ParseTime(sel_losses[j].killmail_time) <= ParseTime(sel_out.killmail_time)

\* the latest loss in the middle, and a loss whose string sorts after it
\* although its instant is earlier
C3_Witness ==
    /\ sel_pc = "returned"
    /\ Len(sel_losses) = 3
    /\ sel_losses[1].killmail_time = T2
    /\ sel_losses[2].killmail_time = T1
    /\ sel_losses[3].killmail_time = T4
    /\ sel_out = sel_losses[2]

Segment(value, unit) ==
    IF value = 0 THEN ""
    ELSE ToString(value) \o " " \o unit \o (IF value = 1 THEN "" ELSE "s") \o ", "

\* C6: for a delta of d days, h hours, m minutes and s seconds the formatter
\* returns the prefix, a segment for each of days, hours, minutes that is not
\* zero, in that order, and always the seconds, singular exactly for 1.
C6_FormatOfADuration ==
    fmt_pc = "returned" =>
        fmt_out = "Time since last ship loss: "
                    \o Segment(fmt_in[1], "day")
                    \o Segment(fmt_in[2], "hour")
                    \o Segment(fmt_in[3], "minute")
                    \o ToString(fmt_in[4]) \o " second"
                    \o (IF fmt_in[4] = 1 THEN "" ELSE "s")

\* hours omitted, seconds emitted although zero
C6_Witness ==
    /\ fmt_pc = "returned"
    /\ fmt_in = <<1, 0, 45, 0>>
    /\ fmt_out = "Time since last ship loss: 1 day, 45 minutes, 0 seconds"

\* the request is a callback that carries a code
CarriesCode(req) ==
    /\ req.route[1] = "/callback"
    /\ \E k \in 1..Len(req.query) : req.query[k][1] = "code" /\ req.query[k][2] /= ""

\* C10 as claimed: the first request handled, whatever it is, ends the wait
\* loop, and no second request is handled.
C10_AsClaimed ==
    /\ Len(handled) <= 1
    /\ Len(handled) = 1 => authorization_code /= ""

\* C10 as the code has it: the listener handles requests until the first one
\* whose path starts with /callback and that carries a non-blank code; that
\* request ends the wait loop and is the last one handled; every other
\* request is answered and leaves the loop waiting.
C10_ListenerEndsOnFirstCode ==
    /\ \A i \in 1..Len(handled) : CarriesCode(handled[i]) <=> (i = Len(handled) /\ authorization_code /= "")
    /\ authorization_code /= "" =>
          /\ handled /= <<>>
          /\ \E k \in 1..Len(handled[Len(handled)].query) :
                handled[Len(handled)].query[k] = <<"code", authorization_code>>
    /\ tok_pc /= "waiting" => authorization_code /= ""
    /\ Len(written) = Len(handled)

\* two requests without a code were answered before the one that ended the loop
C10_Witness ==
    /\ tok_pc = "exchange"
    /\ Len(handled) = 3
    /\ handled[1].route = <<"/favicon.ico">>
    /\ handled[2] = [route |-> <<"/callback">>, query |-> << <<"code", "">> >>]
    /\ authorization_code = "def"

=============================================================================
